---- MODULE Spec2Model ----
(***************************************************************************)
(* Model of the MCP DynamoDB query server                                  *)
(* (src/openai-dynamodb-server/index.ts).                                  *)
(*                                                                         *)
(* The server connects an stdio transport, loads every configured          *)
(* DynamoDB table into memory (initialize), infers a schema per table and  *)
(* answers query_table invocations by asking a language model for a        *)
(* structured query and executing it on the in-memory records.             *)
(***************************************************************************)
EXTENDS Integers, Sequences, FiniteSets, TLC

(***************************************************************************)
(* Bounds of the model.                                                    *)
(***************************************************************************)
\* largest number of items one Scan response carries
MaxPage == 2
\* largest number of query_table invocations awaiting the language model
MaxInflight == 2

(***************************************************************************)
(* JavaScript values.  A value is undefined, a number (possibly NaN), a    *)
(* string, an array/plain object (typeof "object") or a function.          *)
(***************************************************************************)
Undef == [t |-> "undefined"]
NaN == [t |-> "number", nan |-> TRUE, v |-> 0]
Fn == [t |-> "function"]
Num(n) == [t |-> "number", nan |-> FALSE, v |-> n]
Str(s) == [t |-> "string", s |-> s]
Arr(items) == [t |-> "object", cls |-> "Array", items |-> items]

\* the typeof operator
TypeOf(x) == x.t

\* UTF-16 code units of the strings that occur in the model (all ASCII, so
\* also their UTF-8 bytes)
Chars(s) ==
  CASE s = "" -> << >>
    [] s = "9" -> <<57>>
    [] s = "10" -> <<49, 48>>
    [] s = "abc" -> <<97, 98, 99>>
    [] s = "Ann" -> <<65, 110, 110>>
    [] s = "Bo" -> <<66, 111>>
    [] s = "age" -> <<97, 103, 101>>
    [] s = "name" -> <<110, 97, 109, 101>>
    [] s = "zip" -> <<122, 105, 112>>
    [] s = "undefined" -> <<117, 110, 100, 101, 102, 105, 110, 101, 100>>
    [] s = "string" -> <<115, 116, 114, 105, 110, 103>>
    [] s = "number" -> <<110, 117, 109, 98, 101, 114>>

IsDigit(c) == c >= 48 /\ c <= 57

RECURSIVE DigitsValue(_)
DigitsValue(cs) ==
  IF cs = << >> THEN 0
  ELSE 10 * DigitsValue(SubSeq(cs, 1, Len(cs) - 1)) + (cs[Len(cs)] - 48)

\* ToNumber applied to a string: a decimal literal converts, the empty string
\* is 0, anything else is NaN
StringToNumber(s) ==
  LET cs == Chars(s)
  IN IF \A i \in 1..Len(cs) : IsDigit(cs[i]) THEN Num(DigitsValue(cs)) ELSE NaN

\* ToNumber
ToNumber(x) ==
  CASE x.t = "number" -> x
    [] x.t = "string" -> StringToNumber(x.s)
    [] OTHER -> NaN

\* comparison of two strings by code units
RECURSIVE LexLess(_, _)
LexLess(a, b) ==
  IF b = << >> THEN FALSE
  ELSE IF a = << >> THEN TRUE
  ELSE IF Head(a) # Head(b) THEN Head(a) < Head(b)
  ELSE LexLess(Tail(a), Tail(b))

NumEq(a, b) == ~a.nan /\ ~b.nan /\ a.v = b.v
NumLess(a, b) == ~a.nan /\ ~b.nan /\ a.v < b.v

\* x == y  (loose equality)
LooseEq(x, y) ==
  CASE x.t = "undefined" /\ y.t = "undefined" -> TRUE
    [] x.t = "number" /\ y.t = "number" -> NumEq(x, y)
    [] x.t = "string" /\ y.t = "string" -> x.s = y.s
    [] x.t = "number" /\ y.t = "string" -> NumEq(x, ToNumber(y))
    [] x.t = "string" /\ y.t = "number" -> NumEq(ToNumber(x), y)
    [] OTHER -> FALSE

\* x < y  (relational comparison; undefined result counts as false)
Less(x, y) ==
  IF x.t = "string" /\ y.t = "string"
  THEN LexLess(Chars(x.s), Chars(y.s))
  ELSE NumLess(ToNumber(x), ToNumber(y))

\* truthiness of a value
Truthy(x) ==
  CASE x.t = "undefined" -> FALSE
    [] x.t = "number" -> ~x.nan /\ x.v # 0
    [] x.t = "string" -> x.s # ""
    [] OTHER -> TRUE

\* members every plain object inherits from Object.prototype
ObjectPrototype == {"constructor", "toString"}

\* obj[key] on a plain object whose own properties are the function own
Lookup(own, key) ==
  IF key \in DOMAIN own THEN own[key]
  ELSE IF key \in ObjectPrototype THEN Fn
  ELSE Undef

\* a plain object value whose own properties are the function own
Obj(own) == [t |-> "object", cls |-> "Object", own |-> own]

\* the plain object without own properties
EmptyObject == [k \in {} |-> Undef]

(***************************************************************************)
(* DynamoDB items and their conversion to records.                         *)
(***************************************************************************)
\* attribute values of the DynamoDB wire format
AttrN(s) == [ty |-> "N", s |-> s]
AttrS(s) == [ty |-> "S", s |-> s]

\* unmarshall of one item: N attributes become numbers, S attributes strings
unmarshall(item) ==
  [k \in DOMAIN item |->
     IF item[k].ty = "N" THEN StringToNumber(item[k].s) ELSE Str(item[k].s)]

\* result.Items?.map(item => unmarshall(item))
unmarshallAll(items) == [i \in 1..Len(items) |-> unmarshall(items[i])]

(***************************************************************************)
(* Buffer.byteLength(JSON.stringify(allItems), 'utf8')                     *)
(***************************************************************************)
RECURSIVE NumDigits(_)
NumDigits(n) == IF n < 10 THEN 1 ELSE 1 + NumDigits(n \div 10)

\* length of the JSON text of a primitive: digits of a number, a string in
\* quotes (no character of the model needs an escape)
JsonLenPrimitive(x) ==
  IF x.t = "number" THEN NumDigits(x.v) ELSE Len(Chars(x.s)) + 2

RECURSIVE JsonLenMembers(_, _)
JsonLenMembers(rec, keys) ==
  IF keys = {} THEN 0
  ELSE LET k == CHOOSE x \in keys : TRUE
       IN Len(Chars(k)) + 3 + JsonLenPrimitive(rec[k])
          + JsonLenMembers(rec, keys \ {k})

\* {"k":v,...}: braces, members, commas between members
JsonLenRecord(rec) ==
  LET n == Cardinality(DOMAIN rec)
  IN 2 + JsonLenMembers(rec, DOMAIN rec) + (IF n = 0 THEN 0 ELSE n - 1)

RECURSIVE JsonLenItems(_)
JsonLenItems(items) ==
  IF items = << >> THEN 0
  ELSE JsonLenRecord(Head(items)) + JsonLenItems(Tail(items))

\* [r1,r2,...]: brackets, records, commas between records
estimatedSizeOf(items) ==
  2 + JsonLenItems(items) + (IF Len(items) = 0 THEN 0 ELSE Len(items) - 1)

(***************************************************************************)
(* inferSchema                                                             *)
(***************************************************************************)
\* number of leading records the schema is inferred from
SampleSize == 5

\* allItems.slice(0, 5)
SliceSample(items) ==
  SubSeq(items, 1, IF Len(items) < SampleSize THEN Len(items) ELSE SampleSize)

\* the inner function merge of inferSchema
RECURSIVE merge(_, _)
merge(a, b) ==
  IF TypeOf(a) # "object" \/ TypeOf(b) # "object"
  THEN Str(TypeOf(a))
  ELSE Obj([k \in DOMAIN a.own \cup DOMAIN b.own |->
              IF k \in DOMAIN b.own
              THEN merge(Lookup(a.own, k), b.own[k])
              ELSE a.own[k]])

RECURSIVE reduceMerge(_, _)
reduceMerge(acc, data) ==
  IF data = << >> THEN acc
  ELSE reduceMerge(merge(acc, Obj(Head(data))), Tail(data))

\* data.reduce((acc, item) => merge(acc, item), {}); the result is given by
\* its own properties
inferSchema(data) == reduceMerge(Obj(EmptyObject), data).own

(***************************************************************************)
(* Query execution                                                         *)
(***************************************************************************)
\* one filter condition of applyFilters: the body of filters.every
evalCondition(item, f) ==
  LET val == Lookup(item, f.field)
  IN CASE f.operator = "equals" -> LooseEq(val, f.matchValue)
       [] f.operator = "notEquals" -> ~LooseEq(val, f.matchValue)
       [] f.operator = "greaterThan" -> Less(f.matchValue, val)
       [] f.operator = "lessThan" -> Less(val, f.matchValue)
       [] OTHER -> TRUE

\* matchesAll with some in place of every
matchesSome(item, filters) ==
  \E i \in 1..Len(filters) : evalCondition(item, filters[i])

\* filters.every(...) for one item
matchesAll(item, filters) ==
  \A i \in 1..Len(filters) : evalCondition(item, filters[i])

\* applyFilters that hands back the array it was given when nothing is
\* filtered out
applyFiltersShared(data, filters) ==
  LET keep(item) == matchesAll(item, filters)
      kept == SelectSeq(data, keep)
  IN [fresh |-> kept # data, items |-> kept]

\* applyFilters: Array.prototype.filter builds a new array, so the result
\* never is the array it was given (fresh)
applyFilters(data, filters) ==
  LET keep(item) == matchesAll(item, filters)
  IN [fresh |-> TRUE, items |-> SelectSeq(data, keep)]

\* the comparator handed to data.sort
RECURSIVE compareBy(_, _, _)
compareBy(a, b, sortList) ==
  IF sortList = << >> THEN 0
  ELSE LET key == Head(sortList)
       IN IF Less(Lookup(a, key), Lookup(b, key)) THEN -1
          ELSE IF Less(Lookup(b, key), Lookup(a, key)) THEN 1
          ELSE compareBy(a, b, Tail(sortList))

\* Array.prototype.sort on a short array: stable insertion from the left
RECURSIVE insertSorted(_, _, _)
insertSorted(sorted, x, sortList) ==
  IF sorted = << >> THEN <<x>>
  ELSE LET n == Len(sorted)
       IN IF compareBy(sorted[n], x, sortList) > 0
          THEN Append(insertSorted(SubSeq(sorted, 1, n - 1), x, sortList),
                      sorted[n])
          ELSE Append(sorted, x)

RECURSIVE sortBy(_, _)
sortBy(items, sortList) ==
  IF items = << >> THEN << >>
  ELSE LET n == Len(items)
       IN insertSorted(sortBy(SubSeq(items, 1, n - 1), sortList), items[n],
                       sortList)

\* the projection of one record: out[f] = d[f] for every f of fieldList
project(d, fieldList) ==
  [f \in {fieldList[i] : i \in 1..Len(fieldList)} |-> Lookup(d, f)]

\* Array.prototype.slice(0, end)
sliceTo(items, end) ==
  LET n == Len(items)
      to == IF end < 0 THEN (IF n + end < 0 THEN 0 ELSE n + end)
            ELSE IF end > n THEN n ELSE end
  IN SubSeq(items, 1, to)

\* .slice(0, limitCount || data.length)
limitOf(query, n) ==
  IF "limitCount" \in DOMAIN query /\ query.limitCount # 0
  THEN query.limitCount ELSE n

\* JSON.stringify of one projected record: members whose value is undefined
\* (or a function) are left out
stringifyRecord(out) ==
  [f \in {g \in DOMAIN out : out[g].t \in {"number", "string"}} |-> out[f]]

\* JSON.stringify(results, null, 2), as the array the text denotes
stringifyResults(results) ==
  [i \in 1..Len(results) |-> stringifyRecord(results[i])]

\* `Found ${data.length} matching records.`
countText(n) == "Found " \o ToString(n) \o " matching records."

\* `AI error: ${structured.errorMessage}`
aiErrorText(structured) ==
  "AI error: " \o (IF "errorMessage" \in DOMAIN structured
                   THEN structured.errorMessage ELSE "undefined")

\* outcomes of one invocation: a text result, a JSON array result or a throw;
\* steps lists the query steps that ran, write the array of the store the
\* sort wrote to (none unless the sorted array is a stored one)
NoWrite == [has |-> FALSE]
TextResult(text, steps) ==
  [kind |-> "text", text |-> text, steps |-> steps, write |-> NoWrite]
Throw(error, steps) ==
  [kind |-> "throw", error |-> error, steps |-> steps, write |-> NoWrite]

\* records[tableName]
tableOf(recs, structured) ==
  Lookup([n \in DOMAIN recs |-> Arr(recs[n])],
         IF "tableName" \in DOMAIN structured THEN structured.tableName
         ELSE "undefined")

\* the part of the handler after the table lookup (index.ts 275-295)
executeQuery(tbl, structured) ==
  LET filterList == IF "filterList" \in DOMAIN structured
                    THEN structured.filterList ELSE << >>
      data == applyFilters(tbl.items, filterList)
      sorting == "sortList" \in DOMAIN structured
                 /\ Len(structured.sortList) > 0
      sorted == IF sorting THEN sortBy(data.items, structured.sortList)
                ELSE data.items
      write == IF sorting /\ ~data.fresh
               THEN [has |-> TRUE, table |-> structured.tableName,
                     items |-> sorted]
               ELSE NoWrite
      ran == IF sorting THEN <<"filter", "sort">> ELSE <<"filter">>
      n == Len(sorted)
  IN IF "queryType" \in DOMAIN structured /\ structured.queryType = "count"
     THEN [kind |-> "text", text |-> countText(n),
           steps |-> Append(ran, "count"), write |-> write]
     ELSE IF n > 0 /\ "fieldList" \notin DOMAIN structured
     THEN [kind |-> "throw", error |-> "TypeError: fieldList is not iterable",
           steps |-> Append(ran, "project"), write |-> write]
     ELSE LET results == [i \in 1..n |-> project(sorted[i], structured.fieldList)]
          IN [kind |-> "json",
              json |-> stringifyResults(sliceTo(results, limitOf(structured, n))),
              steps |-> Append(ran, "project"), write |-> write]

\* the handler from JSON.parse on (index.ts 264-295); content is the language
\* model's message content
handleContent(recs, content) ==
  IF content.kind = "text"
  THEN Throw("SyntaxError", << >>)
  ELSE LET structured == IF content.kind = "json" THEN content.value
                         ELSE EmptyObject
       IN IF "result" \notin DOMAIN structured \/ structured.result # "OK"
          THEN TextResult(aiErrorText(structured), << >>)
          ELSE LET tbl == tableOf(recs, structured)
               IN IF ~Truthy(tbl) THEN TextResult("Table not found", << >>)
                  ELSE IF tbl.t # "object"
                  THEN Throw("TypeError: data.filter is not a function", << >>)
                  ELSE executeQuery(tbl, structured)

(***************************************************************************)
(* Configuration and inputs                                                *)
(***************************************************************************)
\* config.ddb_defs
TABLE_CONFIG ==
  << [name |-> "students", description |-> "Student enrollment database"],
     [name |-> "courses", description |-> "Catalog of course offerings"] >>

TableNames == {TABLE_CONFIG[i].name : i \in 1..Len(TABLE_CONFIG)}

\* contents the remote students table may have
StudentsNumeric ==
  << [name |-> AttrS("Ann"), age |-> AttrN("9")],
     [name |-> AttrS("Bo"), age |-> AttrN("10")] >>
StudentsMixed ==
  << [name |-> AttrS("Bo"), age |-> AttrS("10")],
     [age |-> AttrN("9")],
     [name |-> AttrS("Ann"), age |-> AttrS("abc")] >>
StudentsLong ==
  << [name |-> AttrS("Bo")], [name |-> AttrN("10")], [name |-> AttrS("Ann")],
     [name |-> AttrS("Bo")], [name |-> AttrS("Ann"), age |-> AttrN("9")],
     [age |-> AttrS("abc")] >>
\* contents the remote courses table may have
CoursesEmpty == << >>
CoursesOne == << [name |-> AttrS("abc")] >>

RemoteStores ==
  { [students |-> s, courses |-> c] :
      s \in {StudentsNumeric, StudentsMixed, StudentsLong},
      c \in {CoursesEmpty, CoursesOne} }

\* values of MAX_RECORD_MEMORY_BYTES after parseInt (0: unset, no limit)
Budgets == {0, 70}

\* filter conditions and lists the language model may produce
Cond(field, operator, matchValue) ==
  [field |-> field, operator |-> operator, matchValue |-> matchValue]
FilterLists ==
  { << >>,
    <<Cond("age", "greaterThan", Num(5))>>,
    <<Cond("age", "equals", Str("9"))>>,
    <<Cond("name", "notEquals", Str("Ann")), Cond("age", "lessThan", Str("9"))>>,
    <<Cond("age", "contains", Num(9)), Cond("name", "equals", Num(10))>> }
SortLists == { << >>, <<"age">>, <<"name", "age">> }
FieldLists == { << >>, <<"name", "zip">> }
QueryTypes == {"count", "list"}
QueriedTables == TableNames \cup {"events", "constructor"}
Limits == -1..2

\* the members of a structured query the language model may leave out
OptionalMembers == {"filterList", "sortList", "fieldList", "limitCount"}
AllMembers ==
  {"result", "tableName", "queryType"} \cup OptionalMembers

Without(query, omitted) == [k \in DOMAIN query \ omitted |-> query[k]]

\* JSON objects with result "OK"
OkQueries(tables, filterLists, sortLists, fieldLists, limits) ==
  { Without(q, omitted) :
      q \in [result : {"OK"}, tableName : tables, queryType : QueryTypes,
             filterList : filterLists, sortList : sortLists,
             fieldList : fieldLists, limitCount : limits],
      omitted \in SUBSET OptionalMembers }

Json(value) == [kind |-> "json", value |-> value]

\* message contents that are no query: text that is no JSON, an empty
\* content, an error object, and a failed completion request
OtherContents ==
  { [kind |-> "text"], [kind |-> "empty"], [kind |-> "rejected"],
    Json([result |-> "error", errorMessage |-> "abc"]) }

\* every message content of the model
AllContents ==
  OtherContents \cup
  { Json(q) : q \in OkQueries(QueriedTables, FilterLists, SortLists,
                              FieldLists, Limits) }

\* the contents used while the tables load: the queries that name every
\* optional member or none of them
StartupContents ==
  OtherContents \cup
  { Json(q) : q \in { o \in OkQueries(QueriedTables, {<< >>}, {<<"age">>},
                                       {<<"name", "zip">>}, {1}) :
                        \/ DOMAIN o = AllMembers
                        \/ DOMAIN o = AllMembers \ OptionalMembers } }

\* requests the transport delivers to the CallTool handler
Requests ==
  { [name |-> "query_table", args |-> TRUE, prompt |-> "abc"],
    [name |-> "query_table", args |-> FALSE, prompt |-> "abc"],
    [name |-> "drop_table", args |-> TRUE, prompt |-> "abc"] }

(***************************************************************************)
(* State                                                                   *)
(***************************************************************************)
VARIABLES
  remote,            \* the items of every DynamoDB table
  maxMemoryBytes,    \* parseInt(process.env.MAX_RECORD_MEMORY_BYTES || '0')
  mainPc,            \* main(): "start", "loading", "ready" or "exited"
  tableIdx,          \* position of initialize's loop in TABLE_CONFIG
  allItems,          \* initialize: items of the current table so far
  ExclusiveStartKey, \* initialize: key of the next page (0: undefined)
  totalSize,         \* initialize: running size estimate
  records,           \* the record map
  schemas,           \* the schema map
  descriptionToName, \* the description map
  sent,              \* notifications handed to transport.send, in order
  scans,             \* ScanCommands handed to dynamoClient.send, in order
  thrown,            \* the error initialize threw ("" when none)
  pending,           \* augmented prompts of the invocations awaiting OpenAI
  reply              \* the response of the invocation that just finished

vars ==
  << remote, maxMemoryBytes, mainPc, tableIdx, allItems, ExclusiveStartKey,
     totalSize, records, schemas, descriptionToName, sent, scans, thrown,
     pending, reply >>

loadVars ==
  << mainPc, tableIdx, allItems, ExclusiveStartKey, totalSize, records,
     schemas, descriptionToName, sent, scans, thrown >>

NoReply == [kind |-> "none"]

\* the notification sendNotification builds
Notification(type, message) ==
  [jsonrpc |-> "2.0", method |-> "notify",
   params |-> [type |-> type, message |-> message]]

\* sendNotification(transport, type, message)
sendNotification(log, type, message) == Append(log, Notification(type, message))

\* new ScanCommand({ TableName: name, ExclusiveStartKey })
ScanCommand(name, key) == [TableName |-> name, ExclusiveStartKey |-> key]

\* names.join(', ')
RECURSIVE join(_)
join(names) ==
  IF names = << >> THEN ""
  ELSE IF Len(names) = 1 THEN names[1]
  ELSE names[1] \o ", " \o join(Tail(names))

\* Object.keys(m) of a map filled in configured order
keysInOrder(m) ==
  LET in(i) == TABLE_CONFIG[i].name \in DOMAIN m
      idx == SelectSeq([i \in 1..Len(TABLE_CONFIG) |-> i], in)
  IN [i \in 1..Len(idx) |-> TABLE_CONFIG[idx[i]].name]

loadingMsg(name) == "Loading table: " \o name
errorMsgOf(name, total, limit) ==
  "Memory limit exceeded while loading table '" \o name \o "'. Current: "
  \o ToString(total) \o ", Limit: " \o ToString(limit)
completeMsg(recs) ==
  "Initialization complete. Tables loaded: " \o join(keysInOrder(recs))
readyMsg == "MCP DynamoDB server running on stdio"

\* m[key] = value on a map
Put(m, key, value) ==
  [k \in DOMAIN m \cup {key} |-> IF k = key THEN value ELSE m[k]]

EmptyMap == [k \in {} |-> << >>]

Init ==
  /\ remote \in RemoteStores
  /\ maxMemoryBytes \in Budgets
  /\ mainPc = "start"
  /\ tableIdx = 0
  /\ allItems = << >>
  /\ ExclusiveStartKey = 0
  /\ totalSize = 0
  /\ records = EmptyMap
  /\ schemas = EmptyMap
  /\ descriptionToName = EmptyMap
  /\ sent = << >>
  /\ scans = << >>
  /\ thrown = ""
  /\ pending = << >>
  /\ reply = NoReply

(***************************************************************************)
(* main and initialize.  An action is one turn of the event loop: the code *)
(* from one await on I/O to the next.                                      *)
(***************************************************************************)
\* BeginTable without the notification
BeginTableSilent(i, log) ==
  /\ tableIdx' = i
  /\ sent' = log
  /\ descriptionToName' =
       Put(descriptionToName, TABLE_CONFIG[i].description, TABLE_CONFIG[i].name)
  /\ allItems' = << >>
  /\ ExclusiveStartKey' = 0
  /\ scans' = Append(scans, ScanCommand(TABLE_CONFIG[i].name, 0))

\* the head of one loop iteration of initialize, up to the first send of a
\* ScanCommand: notification, description map, empty allItems, no start key
BeginTable(i, log) ==
  /\ tableIdx' = i
  /\ sent' = sendNotification(log, "info", loadingMsg(TABLE_CONFIG[i].name))
  /\ descriptionToName' =
       Put(descriptionToName, TABLE_CONFIG[i].description, TABLE_CONFIG[i].name)
  /\ allItems' = << >>
  /\ ExclusiveStartKey' = 0
  /\ scans' = Append(scans, ScanCommand(TABLE_CONFIG[i].name, 0))

\* main up to the first await on DynamoDB: the transport is connected, then
\* initialize starts on the first table
MainStart ==
  /\ mainPc = "start"
  /\ Len(TABLE_CONFIG) > 0
  /\ mainPc' = "loading"
  /\ totalSize' = 0
  /\ BeginTable(1, sent)
  /\ UNCHANGED <<remote, maxMemoryBytes, records, schemas, thrown, pending,
                 reply>>

\* the Scan responses that may answer a scan starting after position key: at
\* least one and at most MaxPage items while items are left, with a
\* LastEvaluatedKey (the position reached) when items are left and possibly
\* also when the page ends with the table; no items and no key otherwise
ScanPages(name, key) ==
  LET all == remote[name]
      ends == { t \in (key + 1)..(key + MaxPage) : t <= Len(all) }
  IN { [Items |-> SubSeq(all, key + 1, to), LastEvaluatedKey |-> to] :
         to \in ends }
     \cup { [Items |-> SubSeq(all, key + 1, to), LastEvaluatedKey |-> 0] :
              to \in { t \in ends : t = Len(all) } }
     \cup (IF key >= Len(all)
           THEN { [Items |-> << >>, LastEvaluatedKey |-> 0] } ELSE {})

\* the running total that forgets the tables loaded before
addSizeTableOnly(total, estimatedSize) == estimatedSize

\* totalSize += estimatedSize
addSize(total, estimatedSize) == total + estimatedSize

\* the size check of the table just scanned
Exceeds(total) == maxMemoryBytes # 0 /\ total > maxMemoryBytes

\* a Scan response with a LastEvaluatedKey: the items are appended and the
\* next page is requested
ScanMore ==
  /\ mainPc = "loading"
  /\ \E result \in ScanPages(TABLE_CONFIG[tableIdx].name, ExclusiveStartKey) :
       /\ result.LastEvaluatedKey # 0
       /\ allItems' = allItems \o unmarshallAll(result.Items)
       /\ ExclusiveStartKey' = result.LastEvaluatedKey
       /\ scans' = Append(scans, ScanCommand(TABLE_CONFIG[tableIdx].name,
                                             result.LastEvaluatedKey))
  /\ UNCHANGED <<remote, maxMemoryBytes, mainPc, tableIdx, totalSize, records,
                 schemas, descriptionToName, sent, thrown, pending, reply>>

\* the error a failed ScanCommand rejects with
scanFailure == "ScanCommand failed"

\* a ScanCommand fails: initialize does not catch, main's catch exits the
\* process without a notification
ScanFails ==
  /\ mainPc = "loading"
  /\ thrown' = scanFailure
  /\ mainPc' = "exited"
  /\ UNCHANGED <<remote, maxMemoryBytes, tableIdx, allItems, ExclusiveStartKey,
                 totalSize, records, schemas, descriptionToName, sent, scans,
                 pending, reply>>

\* the last Scan response of a table whose size takes the total over the
\* limit: error notification, throw, and main's catch exits the process
LoadExceeds ==
  /\ mainPc = "loading"
  /\ \E result \in ScanPages(TABLE_CONFIG[tableIdx].name, ExclusiveStartKey) :
       LET name == TABLE_CONFIG[tableIdx].name
           items == allItems \o unmarshallAll(result.Items)
           total == addSize(totalSize, estimatedSizeOf(items))
           errorMsg == errorMsgOf(name, total, maxMemoryBytes)
       IN /\ result.LastEvaluatedKey = 0
          /\ Exceeds(total)
          /\ allItems' = items
          /\ ExclusiveStartKey' = 0
          /\ totalSize' = total
          /\ sent' = sendNotification(sent, "error", errorMsg)
          /\ thrown' = errorMsg
          /\ mainPc' = "exited"
  /\ UNCHANGED <<remote, maxMemoryBytes, tableIdx, records, schemas,
                 descriptionToName, scans, pending, reply>>

\* the last Scan response of a table that fits and is not the last table:
\* records and schema are stored and the next table is begun
LoadNext ==
  /\ mainPc = "loading"
  /\ tableIdx < Len(TABLE_CONFIG)
  /\ \E result \in ScanPages(TABLE_CONFIG[tableIdx].name, ExclusiveStartKey) :
       LET name == TABLE_CONFIG[tableIdx].name
           items == allItems \o unmarshallAll(result.Items)
           total == addSize(totalSize, estimatedSizeOf(items))
       IN /\ result.LastEvaluatedKey = 0
          /\ ~Exceeds(total)
          /\ totalSize' = total
          /\ records' = Put(records, name, items)
          /\ schemas' = Put(schemas, name, inferSchema(SliceSample(items)))
          /\ BeginTable(tableIdx + 1, sent)
  /\ UNCHANGED <<remote, maxMemoryBytes, mainPc, thrown, pending, reply>>

\* the last Scan response of the last table, which fits: records and schema
\* are stored, initialize notifies success and main notifies readiness
LoadComplete ==
  /\ mainPc = "loading"
  /\ tableIdx = Len(TABLE_CONFIG)
  /\ \E result \in ScanPages(TABLE_CONFIG[tableIdx].name, ExclusiveStartKey) :
       LET name == TABLE_CONFIG[tableIdx].name
           items == allItems \o unmarshallAll(result.Items)
           total == addSize(totalSize, estimatedSizeOf(items))
           recs == Put(records, name, items)
       IN /\ result.LastEvaluatedKey = 0
          /\ ~Exceeds(total)
          /\ allItems' = items
          /\ ExclusiveStartKey' = 0
          /\ totalSize' = total
          /\ records' = recs
          /\ schemas' = Put(schemas, name, inferSchema(SliceSample(items)))
          /\ sent' = sendNotification(
                       sendNotification(sent, "success", completeMsg(recs)),
                       "info", readyMsg)
          /\ mainPc' = "ready"
  /\ UNCHANGED <<remote, maxMemoryBytes, tableIdx, descriptionToName, scans,
                 thrown, pending, reply>>

(***************************************************************************)
(* The CallTool handler.  It runs in two turns of the event loop: up to    *)
(* the await on the OpenAI completion, and from the completion on.  The    *)
(* transport dispatches requests from server.connect on, that is while     *)
(* initialize awaits DynamoDB as well as after it.                         *)
(***************************************************************************)
Serving == mainPc \in {"loading", "ready"}

\* buildAugmentedPrompt: the user prompt, the table list and the schema map
\* as they are when the prompt is built
buildAugmentedPrompt(userPrompt) ==
  [userPrompt |-> userPrompt, tables |-> TABLE_CONFIG, schemas |-> schemas]

\* a request without arguments or for another tool: the handler throws
CallToolReject ==
  /\ Serving
  /\ reply = NoReply
  /\ \E request \in Requests :
       /\ ~request.args \/ request.name # "query_table"
       /\ reply' = [kind |-> "done", request |-> request,
                    content |-> [kind |-> "none"],
                    out |-> Throw("Tool not found or missing arguments", << >>)]
  /\ UNCHANGED <<remote, maxMemoryBytes, loadVars, pending>>

\* a query_table request: the prompt is built and sent to OpenAI
CallToolStart ==
  /\ Serving
  /\ Len(pending) < MaxInflight
  /\ \E request \in Requests :
       /\ request.args /\ request.name = "query_table"
       /\ pending' = Append(pending, buildAugmentedPrompt(request.prompt))
  /\ UNCHANGED <<remote, maxMemoryBytes, loadVars, reply>>

RemoveAt(seq, i) == SubSeq(seq, 1, i - 1) \o SubSeq(seq, i + 1, Len(seq))

\* the completion of one pending invocation arrives with one of the given
\* contents: the handler parses it, runs the query and returns or throws
CallToolResume(contents) ==
  /\ Serving
  /\ reply = NoReply
  /\ \E i \in 1..Len(pending), content \in contents :
       LET out == IF content.kind = "rejected" THEN Throw("APIError", << >>)
                  ELSE handleContent(records, content)
       IN /\ pending' = RemoveAt(pending, i)
          /\ reply' = [kind |-> "done", request |-> pending[i],
                       content |-> content, out |-> out]
          /\ records' = IF out.write.has
                        THEN [records EXCEPT ![out.write.table] = out.write.items]
                        ELSE records
  /\ UNCHANGED <<remote, maxMemoryBytes, mainPc, tableIdx, allItems,
                 ExclusiveStartKey, totalSize, schemas, descriptionToName,
                 sent, scans, thrown>>

\* the response (result or error) leaves through the transport
SendReply ==
  /\ reply # NoReply
  /\ reply' = NoReply
  /\ UNCHANGED <<remote, maxMemoryBytes, loadVars, pending>>

StartupResume == CallToolResume(StartupContents)
QueryResume == CallToolResume(AllContents)

Next ==
  \/ MainStart
  \/ ScanMore
  \/ ScanFails
  \/ LoadExceeds
  \/ LoadNext
  \/ LoadComplete
  \/ CallToolReject
  \/ CallToolStart
  \/ StartupResume
  \/ SendReply

Spec == Init /\ [][Next]_vars

(***************************************************************************)
(* The server after a complete load, queried with every content.           *)
(***************************************************************************)
\* the state main reaches when every table of the store r loaded
RECURSIVE LoadedNotifications(_)
LoadedNotifications(i) ==
  IF i = 0 THEN << >>
  ELSE sendNotification(LoadedNotifications(i - 1), "info",
                        loadingMsg(TABLE_CONFIG[i].name))

RECURSIVE LoadedSize(_, _)
LoadedSize(r, i) ==
  IF i = 0 THEN 0
  ELSE LoadedSize(r, i - 1)
       + estimatedSizeOf(unmarshallAll(r[TABLE_CONFIG[i].name]))

\* the ScanCommands of a load that received its items one per page
RECURSIVE LoadedScans(_, _)
LoadedScans(r, i) ==
  IF i = 0 THEN << >>
  ELSE LET name == TABLE_CONFIG[i].name
           pages == IF Len(r[name]) = 0 THEN 1 ELSE Len(r[name])
       IN LoadedScans(r, i - 1) \o [k \in 1..pages |-> ScanCommand(name, k - 1)]

Loaded ==
  /\ maxMemoryBytes = 0
  /\ mainPc = "ready"
  /\ tableIdx = Len(TABLE_CONFIG)
  /\ allItems = unmarshallAll(remote[TABLE_CONFIG[Len(TABLE_CONFIG)].name])
  /\ ExclusiveStartKey = 0
  /\ totalSize = LoadedSize(remote, Len(TABLE_CONFIG))
  /\ records = [n \in TableNames |-> unmarshallAll(remote[n])]
  /\ schemas = [n \in TableNames |->
                  inferSchema(SliceSample(unmarshallAll(remote[n])))]
  /\ descriptionToName =
       [d \in {TABLE_CONFIG[i].description : i \in 1..Len(TABLE_CONFIG)} |->
          (CHOOSE t \in TableNames :
             \E i \in 1..Len(TABLE_CONFIG) :
               TABLE_CONFIG[i].description = d /\ TABLE_CONFIG[i].name = t)]
  /\ sent = sendNotification(
              sendNotification(LoadedNotifications(Len(TABLE_CONFIG)),
                               "success", completeMsg(records)),
              "info", readyMsg)
  /\ scans = LoadedScans(remote, Len(TABLE_CONFIG))
  /\ thrown = ""
  /\ pending = << >>
  /\ reply = NoReply

InitLoaded == remote \in RemoteStores /\ Loaded

NextLoaded ==
  \/ CallToolReject
  \/ CallToolStart
  \/ QueryResume
  \/ SendReply

SpecLoaded == InitLoaded /\ [][NextLoaded]_vars

(***************************************************************************)
(* Properties                                                              *)
(***************************************************************************)
\* an invocation has finished on a JSON content with result "OK"
OkReply ==
  /\ reply.kind = "done"
  /\ reply.content.kind = "json"
  /\ reply.content.value.result = "OK"

Query == reply.content.value

\* ... and its tableName is a table of the record map
OnLoadedTable == OkReply /\ Query.tableName \in DOMAIN records

FilterListOf(q) == IF "filterList" \in DOMAIN q THEN q.filterList ELSE << >>

\* positions of the records of the queried table that satisfy every condition
Matching(q) ==
  LET recs == records[q.tableName]
      fl == FilterListOf(q)
  IN { i \in 1..Len(recs) :
         \A j \in 1..Len(fl) : evalCondition(recs[i], fl[j]) }

Min(a, b) == IF a < b THEN a ELSE b

\* C1: whenever the language model's content is text that is no JSON, the
\* invocation still ends with an ordinary text result (an error-shaped
\* structured query), never with a throw.
C1_NonJsonGivesTextResult ==
  (reply.kind = "done" /\ reply.content.kind = "text")
    => (reply.out.kind = "text")

\* C2: a query with result "OK" whose tableName is no table of the record map
\* returns exactly "Table not found" and runs no filter, sort, projection or
\* count.
C2_UnknownTableNotFound ==
  (OkReply /\ Query.tableName \notin DOMAIN records)
    => /\ reply.out.kind = "text"
       /\ reply.out.text = "Table not found"
       /\ reply.out.steps = << >>

\* C3: a count query on a loaded table returns "Found N matching records."
\* where N is the number of records of the table that satisfy every condition
\* of filterList (all records when filterList is empty or absent), whatever
\* the sortList.
C3_CountIsNumberOfMatches ==
  (OnLoadedTable /\ Query.queryType = "count")
    => /\ reply.out.kind = "text"
       /\ reply.out.text = countText(Cardinality(Matching(Query)))
       /\ (FilterListOf(Query) = << >>
             => reply.out.text = countText(Len(records[Query.tableName])))

\* C3 witness: a count over a sorted, filtered table that keeps some records
\* and drops others.
C3_Witness ==
  /\ OnLoadedTable
  /\ Query.queryType = "count"
  /\ "sortList" \in DOMAIN Query
  /\ Len(Query.sortList) > 0
  /\ Len(FilterListOf(Query)) > 1
  /\ Cardinality(Matching(Query)) > 0
  /\ Cardinality(Matching(Query)) < Len(records[Query.tableName])
  /\ reply.out.kind = "text"

\* C4: a list query with n records surviving the filter returns
\* min(limitCount, n) items when limitCount is a positive integer and n items
\* for every other limitCount (absent, zero or negative).
C4_LimitCount ==
  (OnLoadedTable /\ Query.queryType # "count" /\ reply.out.kind = "json")
    => LET n == Cardinality(Matching(Query))
       IN Len(reply.out.json) =
            IF "limitCount" \in DOMAIN Query /\ Query.limitCount > 0
            THEN Min(Query.limitCount, n) ELSE n

\* position of a table name in TABLE_CONFIG
IndexOf(name) == CHOOSE i \in 1..Len(TABLE_CONFIG) : TABLE_CONFIG[i].name = name

\* size estimate of the tables of the record map, summed
RECURSIVE StoredSize(_)
StoredSize(names) ==
  IF names = {} THEN 0
  ELSE LET n == CHOOSE x \in names : TRUE
       IN estimatedSizeOf(records[n]) + StoredSize(names \ {n})

\* C5 (state part): with a non-zero budget, ScanCommands are issued in
\* configured order, a table is scanned only after every earlier table has
\* been stored, stored tables never exceed the budget, and a failed load has
\* thrown an error naming the table whose size took the total over the
\* budget, that total and the budget, with no ScanCommand issued for any
\* later table.
C5_LoadState ==
  maxMemoryBytes # 0 =>
    /\ \A j \in 1..Len(scans) :
         /\ j > 1 => IndexOf(scans[j - 1].TableName) <= IndexOf(scans[j].TableName)
         /\ \A i \in 1..(IndexOf(scans[j].TableName) - 1) :
              TABLE_CONFIG[i].name \in DOMAIN records
    /\ StoredSize(DOMAIN records) <= maxMemoryBytes
    /\ (mainPc # "exited") = (thrown = "")
    /\ thrown \notin {"", scanFailure} =>
         LET k == tableIdx
             before == StoredSize(DOMAIN records)
             total == before + estimatedSizeOf(unmarshallAll(remote[TABLE_CONFIG[k].name]))
         IN /\ DOMAIN records = {TABLE_CONFIG[i].name : i \in 1..(k - 1)}
            /\ total > maxMemoryBytes
            /\ thrown = "Memory limit exceeded while loading table '"
                        \o TABLE_CONFIG[k].name \o "'. Current: "
                        \o ToString(total) \o ", Limit: "
                        \o ToString(maxMemoryBytes)
            /\ \A j \in 1..Len(scans) : IndexOf(scans[j].TableName) <= k

\* C5: during initialize with a non-zero memory budget the tables load
\* strictly in configured order; when the running size first exceeds the
\* budget after table k the load fails with an error naming table k, the
\* total and the budget, and from then on no ScanCommand is ever issued.
C5_BudgetAbortsLoad ==
  /\ []C5_LoadState
  /\ [][thrown \notin {"", scanFailure}
         => scans' = scans /\ records' = records]_vars

\* C5 witness: the load has failed on the first table while a second table
\* is configured.
C5_Witness ==
  /\ maxMemoryBytes # 0
  /\ thrown \notin {"", scanFailure}
  /\ tableIdx = 1
  /\ Len(TABLE_CONFIG) > 1
  /\ Len(scans) > 1

\* C6: no invocation reads the record map before the load is complete, and
\* no configured table is ever reported as not found.
C6_NoQueryBeforeLoaded ==
  /\ (reply.kind = "done" /\ reply.content.kind = "json") => mainPc = "ready"
  /\ (OkReply /\ reply.out.kind = "text" /\ reply.out.text = "Table not found")
       => Query.tableName \notin TableNames

\* C7: once the load is complete no step changes the record map or the
\* schema map.
C7_StoreImmutable ==
  [][mainPc = "ready" => records' = records /\ schemas' = schemas]_vars

\* C7 witness: after the load an invocation has sorted every record of a
\* table into an order that differs from the stored one, and the store still
\* holds the records as they were loaded.
C7_Witness ==
  /\ mainPc = "ready"
  /\ OnLoadedTable
  /\ reply.out.kind = "json"
  /\ reply.out.steps = <<"filter", "sort", "project">>
  /\ Cardinality(Matching(Query)) = Len(records[Query.tableName])
  /\ sortBy(records[Query.tableName], Query.sortList) # records[Query.tableName]
  /\ \A n \in TableNames : records[n] = unmarshallAll(remote[n])

\* the table-load-start notifications of the first k configured tables
ExpectedStarts(k) ==
  [i \in 1..k |->
     [jsonrpc |-> "2.0", method |-> "notify",
      params |-> [type |-> "info",
                  message |-> "Loading table: " \o TABLE_CONFIG[i].name]]]

TypesOf(log) == [i \in 1..Len(log) |-> log[i].params.type]

SampleOf(n) == SliceSample(records[n])

\* C9: the schema of a table gives every field of the sampled records the
\* type tag of its value in the last sampled record that has the field.
C9_LastSampleTypeWins ==
  \A n \in DOMAIN schemas :
    \A i \in 1..Len(SampleOf(n)) :
      \A f \in DOMAIN SampleOf(n)[i] :
        (\A j \in (i + 1)..Len(SampleOf(n)) : f \notin DOMAIN SampleOf(n)[j])
          => /\ f \in DOMAIN schemas[n]
             /\ schemas[n][f] = Str(TypeOf(SampleOf(n)[i][f]))

\* C10: a query with result "OK" on a loaded table completes with a text
\* result (a count message or a JSON array) whichever of filterList,
\* sortList, fieldList and limitCount are absent.
C10_MissingMembersTolerated ==
  OnLoadedTable => reply.out.kind \in {"text", "json"}

====
